---- MODULE Spec2Model ----
(***************************************************************************)
(* Model of src/main.cpp: the order book (OrderBook), the wallet (Wallet,  *)
(* ExtendedWallet) and the menu loop that drives them (MerkelMain).        *)
(*                                                                         *)
(* Encoding.                                                               *)
(*  - A timestamp string is represented by its seconds field: all stored   *)
(*    timestamps are "2020/03/17 17:01:SS", so the lexicographic order of  *)
(*    the strings is the numeric order of SS.  The empty string "" (less   *)
(*    than every timestamp) is EmptyTime.                                  *)
(*  - Amounts and balances of the base asset are counted in tenths of a    *)
(*    unit (0.5 is 5, 10 is 100); a quote balance is counted in tenths     *)
(*    too, so that amount * price needs no rescaling.  Rounding of         *)
(*    double arithmetic is not modelled.                                   *)
(*  - Every stored entry carries a field id, the identity of the C++       *)
(*    object (its insertion number); the code never reads it.              *)
(*  - std::sort leaves the relative order of equivalent elements           *)
(*    unspecified: StdSort is the set of all orders it may produce.        *)
(***************************************************************************)
EXTENDS Integers, Sequences, FiniteSets, TLC

VARIABLES
    orders,       \* OrderBook::orders
    currentTime,  \* MerkelMain::currentTime
    currencies,   \* Wallet::currencies, a map currency -> balance
    last,         \* history: the operation of the last step and its outcome
    matches,      \* history: what matchAsksToBids returned, if the last step was a time step
    settled,      \* history: per sale of that time step, the wallet before/after
    traded,       \* history: id -> cumulative amount traded against that entry
    nAdvances     \* history: number of gotoNextTimeframe calls so far

vars == <<orders, currentTime, currencies, last, matches, settled, traded, nAdvances>>

-----------------------------------------------------------------------------
(* Bounds *)

MaxOrders == 2
MaxAdvances == 3
MaxSide == 2
MaxBalance == 20
MaxClock == 3
MaxLiveOrders == 1

-----------------------------------------------------------------------------
(* Timestamps *)

T1 == 24
T2 == 30
EmptyTime == 0

-----------------------------------------------------------------------------
(* Entries *)

OrderBookEntry(_price, _amount, _timestamp, _product, _orderType, _username) ==
    [price |-> _price, amount |-> _amount, timestamp |-> _timestamp,
     product |-> _product, orderType |-> _orderType, username |-> _username]

\* The stored object: the entry and its identity.
Stored(e, n) ==
    [price |-> e.price, amount |-> e.amount, timestamp |-> e.timestamp,
     product |-> e.product, orderType |-> e.orderType, username |-> e.username,
     id |-> n]

compareByTimestamp(e1, e2) == e1.timestamp < e2.timestamp

compareByPriceAsc(e1, e2) == e1.price < e2.price

compareByPriceDesc(e1, e2) == e1.price > e2.price

\* CSVReader::tokenise(product, '/') on the products of the model.
tokenise(product) ==
    CASE product = "BTC/USDT" -> <<"BTC", "USDT">>
      [] product = "ETH/USDT" -> <<"ETH", "USDT">>

-----------------------------------------------------------------------------
(* Sequences *)

RECURSIVE SumSeq(_)
SumSeq(s) == IF Len(s) = 0 THEN 0 ELSE s[1] + SumSeq(Tail(s))

\* std::sort(first, last, comp): every arrangement of s in which no element
\* is preceded by one that compares greater.  less is the matrix of comp:
\* less[i][j] = comp(s[i], s[j]).
RECURSIVE SortFrom(_, _, _)
SortFrom(s, less, left) ==
    IF left = {} THEN {<<>>}
    ELSE LET firsts == {i \in left : \A j \in left : ~less[j][i]}
         IN UNION {{<<s[i]>> \o rest : rest \in SortFrom(s, less, left \ {i})} : i \in firsts}

StdSort(s, less) == SortFrom(s, less, 1..Len(s))

ByTimestamp(s) == [i \in 1..Len(s) |-> [j \in 1..Len(s) |-> compareByTimestamp(s[i], s[j])]]

ByPriceAsc(s) == [i \in 1..Len(s) |-> [j \in 1..Len(s) |-> compareByPriceAsc(s[i], s[j])]]

\* ByPriceDesc with the comparator of the asks.
ByPriceDescAsAsks(s) == [i \in 1..Len(s) |-> [j \in 1..Len(s) |-> compareByPriceAsc(s[i], s[j])]]

ByPriceDesc(s) == [i \in 1..Len(s) |-> [j \in 1..Len(s) |-> compareByPriceDesc(s[i], s[j])]]

-----------------------------------------------------------------------------
(* Wallet *)

\* std::map::operator[]: a missing key reads as 0 (and is created).
Balance(c, type) == IF type \in DOMAIN c THEN c[type] ELSE 0

SetBalance(c, type, v) ==
    [k \in DOMAIN c \cup {type} |-> IF k = type THEN v ELSE c[k]]

EmptyWallet == [k \in {} |-> 0]

\* Result: the map afterwards, and whether the call threw.
insertCurrency(c, type, amount) ==
    IF amount < 0 THEN [currencies |-> c, ok |-> FALSE]
    ELSE [currencies |-> SetBalance(c, type, Balance(c, type) + amount), ok |-> TRUE]

containsCurrency(c, type, amount) ==
    IF type \notin DOMAIN c THEN FALSE ELSE c[type] >= amount

\* removeCurrency without its first test.
removeCurrencyUnchecked(c, type, amount) ==
    IF type \notin DOMAIN c THEN [currencies |-> c, ok |-> FALSE]
    ELSE IF containsCurrency(c, type, amount)
         THEN [currencies |-> SetBalance(c, type, c[type] - amount), ok |-> TRUE]
         ELSE [currencies |-> c, ok |-> FALSE]

\* Result: the map afterwards, and the value returned.
removeCurrency(c, type, amount) ==
    IF amount < 0 THEN [currencies |-> c, ok |-> FALSE]
    ELSE IF type \notin DOMAIN c THEN [currencies |-> c, ok |-> FALSE]
    ELSE IF containsCurrency(c, type, amount)
         THEN [currencies |-> SetBalance(c, type, c[type] - amount), ok |-> TRUE]
         ELSE [currencies |-> c, ok |-> FALSE]

\* canFulfillOrder asking, for a bid, for the amount instead of amount * price.
canFulfillOrderNoPrice(c, order) ==
    LET currs == tokenise(order.product)
    IN IF order.orderType = "ask" THEN containsCurrency(c, currs[1], order.amount)
       ELSE IF order.orderType = "bid"
            THEN containsCurrency(c, currs[2], order.amount)
            ELSE FALSE

canFulfillOrder(c, order) ==
    LET currs == tokenise(order.product)
    IN IF order.orderType = "ask" THEN containsCurrency(c, currs[1], order.amount)
       ELSE IF order.orderType = "bid"
            THEN containsCurrency(c, currs[2], order.amount * order.price)
            ELSE FALSE

\* processSale with the bidsale branch a copy of the asksale branch.
processSaleCopied(c, sale) ==
    LET currs == tokenise(sale.product)
    IN IF sale.orderType \in {"asksale", "bidsale"}
       THEN LET outgoing == sale.amount
                incoming == sale.amount * sale.price
                d == SetBalance(c, currs[1], Balance(c, currs[1]) - outgoing)
            IN SetBalance(d, currs[2], Balance(d, currs[2]) + incoming)
       ELSE c

processSale(c, sale) ==
    LET currs == tokenise(sale.product)
        c1 == IF sale.orderType = "asksale"
              THEN LET outgoing == sale.amount
                       incoming == sale.amount * sale.price
                       d == SetBalance(c, currs[1], Balance(c, currs[1]) - outgoing)
                   IN SetBalance(d, currs[2], Balance(d, currs[2]) + incoming)
              ELSE c
    IN IF sale.orderType = "bidsale"
       THEN LET incoming == sale.amount
                outgoing == sale.amount * sale.price
                d == SetBalance(c1, currs[1], Balance(c1, currs[1]) + incoming)
            IN SetBalance(d, currs[2], Balance(d, currs[2]) - outgoing)
       ELSE c1

-----------------------------------------------------------------------------
(* OrderBook *)

\* OrderBook::OrderBook: the mock records, in the order they are emplaced.
SeedOrders ==
    << Stored(OrderBookEntry(10000,   5, T1, "BTC/USDT", "bid", "dataset"), 1),
       Stored(OrderBookEntry(10500,   2, T1, "BTC/USDT", "ask", "dataset"), 2),
       Stored(OrderBookEntry(10100,  10, T1, "BTC/USDT", "bid", "dataset"), 3),
       Stored(OrderBookEntry(  200, 500, T2, "ETH/USDT", "ask", "dataset"), 4),
       Stored(OrderBookEntry(  190, 100, T2, "ETH/USDT", "bid", "dataset"), 5) >>

\* Keys of a std::map<std::string, bool> are iterated in ascending order.
ProductsAscending == <<"BTC/USDT", "ETH/USDT">>

getKnownProducts(os) ==
    SelectSeq(ProductsAscending, LAMBDA p : \E i \in 1..Len(os) : os[i].product = p)

getOrders(os, type, product, timestamp) ==
    SelectSeq(os, LAMBDA e : e.orderType = type /\ e.product = product
                             /\ e.timestamp = timestamp)

getEarliestTime(os) == os[1].timestamp

\* getNextTime without the wrap-around: past the last time frame the
\* cursor stays where it is.
getNextTimeNoWrap(os, timestamp) ==
    LET later == {i \in 1..Len(os) : os[i].timestamp > timestamp}
        first == CHOOSE i \in later : \A j \in later : i <= j
        next_timestamp == IF later = {} THEN EmptyTime ELSE os[first].timestamp
    IN IF next_timestamp = EmptyTime THEN timestamp ELSE next_timestamp

\* getNextTime with >= for >.
getNextTimeNotStrict(os, timestamp) ==
    LET later == {i \in 1..Len(os) : os[i].timestamp >= timestamp}
        first == CHOOSE i \in later : \A j \in later : i <= j
        next_timestamp == IF later = {} THEN EmptyTime ELSE os[first].timestamp
    IN IF next_timestamp = EmptyTime THEN os[1].timestamp ELSE next_timestamp

getNextTime(os, timestamp) ==
    LET later == {i \in 1..Len(os) : os[i].timestamp > timestamp}
        first == CHOOSE i \in later : \A j \in later : i <= j
        next_timestamp == IF later = {} THEN EmptyTime ELSE os[first].timestamp
    IN IF next_timestamp = EmptyTime THEN os[1].timestamp ELSE next_timestamp

\* insertOrder without the sort.
insertOrderUnsorted(os, order) == {Append(os, order)}

\* The collections insertOrder may leave: push_back, then std::sort.
insertOrder(os, order) ==
    LET pushed == Append(os, order)
    IN StdSort(pushed, ByTimestamp(pushed))

\* NewSale with the two owner tests in the other order.
NewSaleBidLast(ask, bid, product, timestamp) ==
    LET sale == OrderBookEntry(ask.price, 0, timestamp, product, "asksale", "dataset")
        s1 == IF ask.username = "simuser"
              THEN [sale EXCEPT !.username = "simuser", !.orderType = "asksale"]
              ELSE sale
    IN IF bid.username = "simuser"
       THEN [s1 EXCEPT !.username = "simuser", !.orderType = "bidsale"]
       ELSE s1

\* NewSale with the bid's price for the ask's.
NewSaleAtBidPrice(ask, bid, product, timestamp) ==
    LET sale == OrderBookEntry(bid.price, 0, timestamp, product, "asksale", "dataset")
        s1 == IF bid.username = "simuser"
              THEN [sale EXCEPT !.username = "simuser", !.orderType = "bidsale"]
              ELSE sale
    IN IF ask.username = "simuser"
       THEN [s1 EXCEPT !.username = "simuser", !.orderType = "asksale"]
       ELSE s1

\* The sale of one eligible (ask, bid) pair, before its amount is set.
NewSale(ask, bid, product, timestamp) ==
    LET sale == OrderBookEntry(ask.price, 0, timestamp, product, "asksale", "dataset")
        s1 == IF bid.username = "simuser"
              THEN [sale EXCEPT !.username = "simuser", !.orderType = "bidsale"]
              ELSE sale
    IN IF ask.username = "simuser"
       THEN [s1 EXCEPT !.username = "simuser", !.orderType = "asksale"]
       ELSE s1

\* The test that makes a pair eligible.
Eligible(ask, bid) == bid.price >= ask.price

\* ReducedBy with the subtraction forgotten.
ReducedByNothing(amount, filled) == amount

\* What is left of an amount once filled has been traded against it.
ReducedBy(amount, filled) == amount - filled

\* MatchLoop without "bid.amount = 0" in the branch of equal amounts.
RECURSIVE MatchLoopBidKept(_, _, _, _, _, _, _, _)
MatchLoopBidKept(asks, bids, i, j, sales, pairs, product, timestamp) ==
    IF i > Len(asks) THEN [asks |-> asks, bids |-> bids, sales |-> sales, pairs |-> pairs]
    ELSE IF j > Len(bids)
    THEN MatchLoopBidKept(asks, bids, i + 1, 1, sales, pairs, product, timestamp)
    ELSE
      LET ask == asks[i]
          bid == bids[j]
          sale == NewSale(ask, bid, product, timestamp)
          pair == [ask |-> ask, bid |-> bid]
      IN IF Eligible(ask, bid)
         THEN IF bid.amount = ask.amount
              THEN MatchLoopBidKept(asks, bids, i + 1, 1,
                             Append(sales, [sale EXCEPT !.amount = ask.amount]),
                             Append(pairs, pair), product, timestamp)
              ELSE IF bid.amount > ask.amount
              THEN MatchLoopBidKept(asks, [bids EXCEPT ![j].amount = ReducedBy(bid.amount, ask.amount)],
                             i + 1, 1,
                             Append(sales, [sale EXCEPT !.amount = ask.amount]),
                             Append(pairs, pair), product, timestamp)
              ELSE IF bid.amount < ask.amount /\ bid.amount > 0
              THEN MatchLoopBidKept([asks EXCEPT ![i].amount = ReducedBy(ask.amount, bid.amount)],
                             [bids EXCEPT ![j].amount = 0], i, j + 1,
                             Append(sales, [sale EXCEPT !.amount = bid.amount]),
                             Append(pairs, pair), product, timestamp)
              ELSE MatchLoopBidKept(asks, bids, i, j + 1, sales, pairs, product, timestamp)
         ELSE MatchLoopBidKept(asks, bids, i, j + 1, sales, pairs, product, timestamp)

\* The two loops of matchAsksToBids, from ask i and bid j on.  pairs[k] is
\* the (ask, bid) pair, as the loops saw it, that produced sales[k].
RECURSIVE MatchLoop(_, _, _, _, _, _, _, _)
MatchLoop(asks, bids, i, j, sales, pairs, product, timestamp) ==
    IF i > Len(asks) THEN [asks |-> asks, bids |-> bids, sales |-> sales, pairs |-> pairs]
    ELSE IF j > Len(bids)
    THEN MatchLoop(asks, bids, i + 1, 1, sales, pairs, product, timestamp)
    ELSE
      LET ask == asks[i]
          bid == bids[j]
          sale == NewSale(ask, bid, product, timestamp)
          pair == [ask |-> ask, bid |-> bid]
      IN IF Eligible(ask, bid)
         THEN IF bid.amount = ask.amount
              THEN MatchLoop(asks, [bids EXCEPT ![j].amount = 0], i + 1, 1,
                             Append(sales, [sale EXCEPT !.amount = ask.amount]),
                             Append(pairs, pair), product, timestamp)
              ELSE IF bid.amount > ask.amount
              THEN MatchLoop(asks, [bids EXCEPT ![j].amount = ReducedBy(bid.amount, ask.amount)],
                             i + 1, 1,
                             Append(sales, [sale EXCEPT !.amount = ask.amount]),
                             Append(pairs, pair), product, timestamp)
              ELSE IF bid.amount < ask.amount /\ bid.amount > 0
              THEN MatchLoop([asks EXCEPT ![i].amount = ReducedBy(ask.amount, bid.amount)],
                             [bids EXCEPT ![j].amount = 0], i, j + 1,
                             Append(sales, [sale EXCEPT !.amount = bid.amount]),
                             Append(pairs, pair), product, timestamp)
              ELSE MatchLoop(asks, bids, i, j + 1, sales, pairs, product, timestamp)
         ELSE MatchLoop(asks, bids, i, j + 1, sales, pairs, product, timestamp)

\* StoredAfter if asks and bids were references into the collection.
StoredAfterByReference(os, asks, bids) ==
    [i \in 1..Len(os) |->
        IF \E k \in 1..Len(asks) : asks[k].id = os[i].id
        THEN asks[CHOOSE k \in 1..Len(asks) : asks[k].id = os[i].id]
        ELSE IF \E k \in 1..Len(bids) : bids[k].id = os[i].id
        THEN bids[CHOOSE k \in 1..Len(bids) : bids[k].id = os[i].id]
        ELSE os[i]]

\* The stored collection after the loops: asks and bids are copies
\* (getOrders returns its vector by value), so what the loops write to
\* them does not reach the collection.
StoredAfter(os, asks, bids) == os

\* The results matchAsksToBids may have: one per outcome of the two sorts.
\* asks0/bids0 are the sorted working copies before the loops, asks/bids the
\* same copies after them, orders the stored collection after the call.
matchAsksToBids(os, product, timestamp) ==
    LET asks == getOrders(os, "ask", product, timestamp)
        bids == getOrders(os, "bid", product, timestamp)
    IN { LET r == MatchLoop(a, b, 1, 1, <<>>, <<>>, product, timestamp)
         IN [product |-> product, timestamp |-> timestamp, asks0 |-> a, bids0 |-> b,
             asks |-> r.asks, bids |-> r.bids, sales |-> r.sales, pairs |-> r.pairs,
             orders |-> StoredAfter(os, r.asks, r.bids)]
         : a \in StdSort(asks, ByPriceAsc(asks)), b \in StdSort(bids, ByPriceDesc(bids)) }

-----------------------------------------------------------------------------
(* MerkelMain *)

\* What the user may type at the ask/bid prompt: a line that parses into
\* product, price and amount, or a line that does not (wrong token count,
\* or std::stod throws).
InputProducts == {"BTC/USDT", "ETH/USDT"}
InputPrices == {10000}
InputAmounts == {100}
InputLines ==
    [product : InputProducts, price : InputPrices, amount : InputAmounts, parses : {TRUE}]
    \cup {[product |-> "BTC/USDT", price |-> 0, amount |-> 0, parses |-> FALSE]}

NextId == Len(orders) + 1

\* Sum of the amounts of the sales of a time step in which entry n took part.
TradedIn(log, n) ==
    SumSeq([k \in 1..Len(log) |->
              IF log[k].ask.id = n \/ log[k].bid.id = n THEN log[k].sale.amount ELSE 0])

\* enterOrder inserting whatever the wallet answers.
enterOrderUngated(op, type, line) ==
    /\ Len(orders) < Len(SeedOrders) + MaxOrders
    /\ IF ~line.parses
       THEN /\ last' = [op |-> op, outcome |-> "bad input"]
            /\ UNCHANGED <<orders, traded>>
       ELSE LET obe == OrderBookEntry(line.price, line.amount, currentTime,
                                      line.product, type, "simuser")
            IN /\ orders' \in insertOrder(orders, Stored(obe, NextId))
               /\ traded' = traded @@ (NextId :> 0)
               /\ last' = [op |-> op,
                           outcome |-> IF canFulfillOrder(currencies, obe)
                                       THEN "inserted" ELSE "insufficient funds"]
    /\ matches' = <<>>
    /\ settled' = <<>>
    /\ UNCHANGED <<currentTime, currencies, nAdvances>>

\* The body shared by enterAsk and enterBid: build the entry, ask the
\* wallet, insert.
enterOrder(op, type, line) ==
    /\ Len(orders) < Len(SeedOrders) + MaxOrders
    /\ IF ~line.parses
       THEN /\ last' = [op |-> op, outcome |-> "bad input"]
            /\ UNCHANGED <<orders, traded>>
       ELSE LET obe == OrderBookEntry(line.price, line.amount, currentTime,
                                      line.product, type, "simuser")
            IN IF canFulfillOrder(currencies, obe)
               THEN /\ orders' \in insertOrder(orders, Stored(obe, NextId))
                    /\ traded' = traded @@ (NextId :> 0)
                    /\ last' = [op |-> op, outcome |-> "inserted"]
               ELSE /\ last' = [op |-> op, outcome |-> "insufficient funds"]
                    /\ UNCHANGED <<orders, traded>>
    /\ matches' = <<>>
    /\ settled' = <<>>
    /\ UNCHANGED <<currentTime, currencies, nAdvances>>

enterAsk(line) == enterOrder("enterAsk", "ask", line)

enterBid(line) == enterOrder("enterBid", "bid", line)

\* SettleSale without the test of the owner.
SettleAnySale(c, sale) == processSale(c, sale)

\* One iteration of the loop over the sales: settle it if it is the user's.
SettleSale(c, sale) ==
    IF sale.username = "simuser" THEN processSale(c, sale) ELSE c

RECURSIVE SalesLoop(_, _, _, _)
SalesLoop(m, k, c, log) ==
    IF k > Len(m.sales) THEN [currencies |-> c, log |-> log]
    ELSE LET after == SettleSale(c, m.sales[k])
         IN SalesLoop(m, k + 1, after,
                      Append(log, [sale |-> m.sales[k], ask |-> m.pairs[k].ask,
                                   bid |-> m.pairs[k].bid, before |-> c, after |-> after]))

\* The loop over the known products, from product n on: the set of states
\* it may end in.
RECURSIVE ProductsLoop(_, _, _, _)
ProductsLoop(products, n, timestamp, st) ==
    IF n > Len(products) THEN {st}
    ELSE UNION {
           LET r == SalesLoop(m, 1, st.currencies, st.log)
           IN ProductsLoop(products, n + 1, timestamp,
                           [orders |-> m.orders, currencies |-> r.currencies,
                            log |-> r.log, matches |-> Append(st.matches, m)])
           : m \in matchAsksToBids(st.orders, products[n], timestamp) }

gotoNextTimeframe ==
    /\ nAdvances < MaxAdvances
    /\ \E st \in ProductsLoop(getKnownProducts(orders), 1, currentTime,
                              [orders |-> orders, currencies |-> currencies,
                               log |-> <<>>, matches |-> <<>>]) :
         /\ orders' = st.orders
         /\ currencies' = st.currencies
         /\ matches' = st.matches
         /\ settled' = st.log
         /\ traded' = [n \in DOMAIN traded |-> traded[n] + TradedIn(st.log, n)]
         /\ currentTime' = getNextTime(st.orders, currentTime)
    /\ nAdvances' = nAdvances + 1
    /\ last' = [op |-> "gotoNextTimeframe", outcome |-> "done"]

\* MerkelMain::init, up to the menu loop.
StartWallet ==
    insertCurrency(insertCurrency(EmptyWallet, "BTC", 100).currencies,
                   "USDT", 1000000).currencies

Init ==
    /\ orders = SeedOrders
    /\ currentTime = getEarliestTime(SeedOrders)
    /\ currencies = StartWallet
    /\ last = [op |-> "init", outcome |-> "done"]
    /\ matches = <<>>
    /\ settled = <<>>
    /\ traded = [n \in 1..Len(SeedOrders) |-> 0]
    /\ nAdvances = 0

\* processUserOption: options 3, 4 and 6 (the others only print).
Next ==
    \/ \E line \in InputLines : enterAsk(line)
    \/ \E line \in InputLines : enterBid(line)
    \/ gotoNextTimeframe

Spec == Init /\ [][Next]_vars

-----------------------------------------------------------------------------
(* The time step on other first time frames.                               *)
(* The constructor's records stand in for a data file.  FeedSpec replaces  *)
(* the three BTC/USDT records of the first time frame by up to MaxSide     *)
(* asks and MaxSide bids drawn from FeedEntries, some of them the user's,  *)
(* keeps the records of the second time frame, and takes time steps.       *)

FeedPrices == {10000, 10500}
FeedAmounts == {-1, 0, 5, 10}
FeedUsers == {"dataset", "simuser"}

FeedEntries(type) ==
    {OrderBookEntry(p, a, T1, "BTC/USDT", type, u) :
        p \in FeedPrices, a \in FeedAmounts, u \in FeedUsers}

SeqsUpTo(S, n) == UNION {[1..k -> S] : k \in 0..n}

Numbered(s) == [k \in 1..Len(s) |-> Stored(s[k], k)]

Unnumbered(s) ==
    [k \in 1..Len(s) |->
        OrderBookEntry(s[k].price, s[k].amount, s[k].timestamp, s[k].product,
                       s[k].orderType, s[k].username)]

SecondFrame == Unnumbered(SelectSeq(SeedOrders, LAMBDA e : e.timestamp = T2))

FeedInit ==
    /\ \E asks \in SeqsUpTo(FeedEntries("ask"), MaxSide),
          bids \in SeqsUpTo(FeedEntries("bid"), MaxSide) :
         orders = Numbered(asks \o bids \o SecondFrame)
    /\ currentTime = getEarliestTime(orders)
    /\ currencies = StartWallet
    /\ last = [op |-> "init", outcome |-> "done"]
    /\ matches = <<>>
    /\ settled = <<>>
    /\ traded = [n \in 1..Len(orders) |-> 0]
    /\ nAdvances = 0

FeedNext == gotoNextTimeframe

FeedSpec == FeedInit /\ [][FeedNext]_vars

-----------------------------------------------------------------------------
(* The wallet on its own: Wallet(), then insertCurrency and removeCurrency *)
(* with arguments drawn from WalletTypes and WalletAmounts.                *)

WalletTypes == {"BTC", "ETH", "USDT"}
WalletAmounts == {-5, 0, 5, 10}

deposit(type, amount) ==
    LET r == insertCurrency(currencies, type, amount)
    IN /\ Balance(currencies, type) + amount <= MaxBalance
       /\ currencies' = r.currencies
       /\ last' = [op |-> "insertCurrency", type |-> type, amount |-> amount,
                   ok |-> r.ok, before |-> currencies]
       /\ UNCHANGED <<orders, currentTime, matches, settled, traded, nAdvances>>

withdraw(type, amount) ==
    LET r == removeCurrency(currencies, type, amount)
    IN /\ currencies' = r.currencies
       /\ last' = [op |-> "removeCurrency", type |-> type, amount |-> amount,
                   ok |-> r.ok, before |-> currencies]
       /\ UNCHANGED <<orders, currentTime, matches, settled, traded, nAdvances>>

WalletInit ==
    /\ orders = SeedOrders
    /\ currentTime = getEarliestTime(SeedOrders)
    /\ currencies = EmptyWallet
    /\ last = [op |-> "Wallet", type |-> "", amount |-> 0, ok |-> TRUE,
               before |-> EmptyWallet]
    /\ matches = <<>>
    /\ settled = <<>>
    /\ traded = [n \in 1..Len(SeedOrders) |-> 0]
    /\ nAdvances = 0

WalletNext ==
    \/ \E type \in WalletTypes, amount \in WalletAmounts : deposit(type, amount)
    \/ \E type \in WalletTypes, amount \in WalletAmounts : withdraw(type, amount)

WalletSpec == WalletInit /\ [][WalletNext]_vars

-----------------------------------------------------------------------------
(* The ledger on its own: Wallet(), then insertCurrency, processSale and   *)
(* canFulfillOrder with arguments drawn from small sets, every side of the *)
(* enumeration included.                                                   *)

OrderBookTypes == {"bid", "ask", "unknown", "asksale", "bidsale"}
LedgerPrices == {1, 2}
LedgerAmounts == {-5, 0, 5}

LedgerEntries ==
    {OrderBookEntry(p, a, T1, product, type, "simuser") :
        p \in LedgerPrices, a \in LedgerAmounts, product \in InputProducts,
        type \in OrderBookTypes}

WithinBalance(c) == \A t \in DOMAIN c : c[t] >= -MaxBalance /\ c[t] <= MaxBalance

settle(sale) ==
    LET after == processSale(currencies, sale)
    IN /\ WithinBalance(after)
       /\ currencies' = after
       /\ last' = [op |-> "processSale", entry |-> sale, result |-> TRUE,
                   before |-> currencies]
       /\ UNCHANGED <<orders, currentTime, matches, settled, traded, nAdvances>>

\* The map a call of containsCurrency leaves: operator[] is reached only
\* for a key that count() has found.
AfterContains(c, type) ==
    IF type \notin DOMAIN c THEN c ELSE SetBalance(c, type, c[type])

\* The map a call of canFulfillOrder leaves.
AfterCanFulfill(c, order) ==
    LET currs == tokenise(order.product)
    IN IF order.orderType = "ask" THEN AfterContains(c, currs[1])
       ELSE IF order.orderType = "bid" THEN AfterContains(c, currs[2])
       ELSE c

canFulfill(order) ==
    /\ currencies' = AfterCanFulfill(currencies, order)
    /\ last' = [op |-> "canFulfillOrder", entry |-> order,
                result |-> canFulfillOrder(currencies, order), before |-> currencies]
    /\ UNCHANGED <<orders, currentTime, matches, settled, traded, nAdvances>>

LedgerNext ==
    \/ \E type \in WalletTypes, amount \in WalletAmounts : deposit(type, amount)
    \/ \E sale \in LedgerEntries : settle(sale)
    \/ \E order \in LedgerEntries : canFulfill(order)

LedgerSpec == WalletInit /\ [][LedgerNext]_vars

-----------------------------------------------------------------------------
(* getHighPrice and getLowPrice on their own, on up to MaxSide entries     *)
(* drawn from FeedEntries.                                                 *)

\* What orders[0].price may read when the vector is empty: whatever the
\* storage holds (a price left by an earlier use of the vector, or zero).
StalePrices == {0} \cup FeedPrices

\* The outcomes of reading orders[0] of an empty vector, which is undefined:
\* the process is killed (null data pointer, or a library assertion), or the
\* read yields a stale value and the function returns it.
EmptyRead ==
    {[kind |-> "crash", price |-> 0]} \cup {[kind |-> "value", price |-> g] : g \in StalePrices}

RECURSIVE ScanHigh(_, _, _)
ScanHigh(entries, k, max) ==
    IF k > Len(entries) THEN max
    ELSE ScanHigh(entries, k + 1, IF entries[k].price > max THEN entries[k].price ELSE max)

RECURSIVE ScanLow(_, _, _)
ScanLow(entries, k, min) ==
    IF k > Len(entries) THEN min
    ELSE ScanLow(entries, k + 1, IF entries[k].price < min THEN entries[k].price ELSE min)

\* The set of outcomes of getHighPrice.
getHighPrice(entries) ==
    IF Len(entries) = 0 THEN EmptyRead
    ELSE {[kind |-> "value", price |-> ScanHigh(entries, 1, entries[1].price)]}

\* The set of outcomes of getLowPrice.
getLowPrice(entries) ==
    IF Len(entries) = 0 THEN EmptyRead
    ELSE {[kind |-> "value", price |-> ScanLow(entries, 1, entries[1].price)]}

StatsInputs == SeqsUpTo(FeedEntries("ask"), MaxSide)

highPrice(entries) ==
    /\ \E r \in getHighPrice(entries) :
          last' = [op |-> "getHighPrice", entries |-> entries, result |-> r]
    /\ UNCHANGED <<orders, currentTime, currencies, matches, settled, traded, nAdvances>>

lowPrice(entries) ==
    /\ \E r \in getLowPrice(entries) :
          last' = [op |-> "getLowPrice", entries |-> entries, result |-> r]
    /\ UNCHANGED <<orders, currentTime, currencies, matches, settled, traded, nAdvances>>

StatsNext ==
    \/ \E entries \in StatsInputs : highPrice(entries)
    \/ \E entries \in StatsInputs : lowPrice(entries)

StatsSpec == Init /\ [][StatsNext]_vars

-----------------------------------------------------------------------------
(* The clock for ever.  LiveSpec takes the time step without end, from the *)
(* seeded book and from books of up to MaxClock records of the dataset in  *)
(* up to three time frames.  The wallet moves at every time step in which  *)
(* an order of the user's trades, and does so again each time the cursor   *)
(* comes round, so the user's lines are those that make no trade here:     *)
(* bids on BTC/USDT below every ask, asks the wallet cannot cover, and     *)
(* lines that do not parse.  The cursor depends on the stored timestamps   *)
(* only.                                                                   *)

\* A third time frame, as far after the second as the second is after the
\* first.
T3 == T2 + (T2 - T1)

ClockTimes == {T1, T2, T3}

ClockEntries ==
    {OrderBookEntry(10500, 5, t, "BTC/USDT", "ask", "dataset") : t \in ClockTimes}
    \cup {OrderBookEntry(10000, 5, t, "BTC/USDT", "bid", "dataset") : t \in ClockTimes}

\* A data file is in ascending order of timestamp, as the seed is.
ClockBooks ==
    {Unnumbered(SeedOrders)}
    \cup {s \in SeqsUpTo(ClockEntries, MaxClock) :
            /\ Len(s) > 0
            /\ \A i, j \in 1..Len(s) : i < j => s[i].timestamp <= s[j].timestamp}

LiveBidLines == {line \in InputLines : ~line.parses \/ line.product = "BTC/USDT"}

LiveAskLines == {line \in InputLines : ~line.parses \/ line.product = "ETH/USDT"}

UserOrders(os) == {i \in 1..Len(os) : os[i].username = "simuser"}

\* gotoNextTimeframe as the fair specification takes it: the histories
\* traded and nAdvances, which grow with every call, are left alone.
gotoNextTimeframeAgain ==
    /\ \E st \in ProductsLoop(getKnownProducts(orders), 1, currentTime,
                              [orders |-> orders, currencies |-> currencies,
                               log |-> <<>>, matches |-> <<>>]) :
         /\ orders' = st.orders
         /\ currencies' = st.currencies
         /\ matches' = st.matches
         /\ settled' = st.log
         /\ currentTime' = getNextTime(st.orders, currentTime)
    /\ last' = [op |-> "gotoNextTimeframe", outcome |-> "done"]
    /\ UNCHANGED <<traded, nAdvances>>

LiveInit ==
    /\ \E book \in ClockBooks : orders = Numbered(book)
    /\ currentTime = getEarliestTime(orders)
    /\ currencies = StartWallet
    /\ last = [op |-> "init", outcome |-> "done"]
    /\ matches = <<>>
    /\ settled = <<>>
    /\ traded = [n \in 1..Len(orders) |-> 0]
    /\ nAdvances = 0

LiveNext ==
    \/ \E line \in LiveAskLines : enterAsk(line)
    \/ \E line \in LiveBidLines :
          Cardinality(UserOrders(orders)) < MaxLiveOrders /\ enterBid(line)
    \/ gotoNextTimeframeAgain

\* The menu loop never ends, and the claim is about the runs in which the
\* user keeps choosing option 6.
LiveSpec == LiveInit /\ [][LiveNext]_vars /\ WF_vars(gotoNextTimeframeAgain)

-----------------------------------------------------------------------------
(* Properties *)

Amounts(s) == [k \in 1..Len(s) |-> s[k].amount]

IsUser(e) == e.username = "simuser"

\* C1 (Spec): no negative balances.  In every state reached by order entry,
\* matching, settlement and time advance from the seeded wallet and book,
\* every balance of the wallet is >= 0.
NoNegativeBalance == \A type \in DOMAIN currencies : currencies[type] >= 0

\* C2 (Spec): affordability gating.  A step of enterAsk or enterBid in which
\* canFulfillOrder answers false leaves the stored collection as it was, and
\* every entry a step adds to the collection is the user's and passes
\* canFulfillOrder against the wallet of that moment.
GatingStep ==
    /\ last'.outcome = "insufficient funds" => orders' = orders
    /\ \A i \in 1..Len(orders') :
          orders'[i].id > Len(orders) =>
             /\ IsUser(orders'[i])
             /\ canFulfillOrder(currencies, orders'[i])
             /\ last'.outcome = "inserted"

AffordabilityGating == [][GatingStep]_vars

\* A rejected bid, with an accepted order already in the book.
GatingWitness ==
    /\ last.op = "enterBid"
    /\ last.outcome = "insufficient funds"
    /\ Len(orders) > Len(SeedOrders)

\* C3 (Spec): balance conservation.  Settling a trade leaves the total of the
\* base asset and the total of the quote currency over the ledgers of its
\* two counterparties unchanged; the dataset owner has no ledger, so the
\* trades this constrains are those whose ask and bid are both the user's,
\* where the one wallet is the ledger of both.
BalanceConservation ==
    \A k \in 1..Len(settled) :
       IsUser(settled[k].ask) /\ IsUser(settled[k].bid) =>
          LET currs == tokenise(settled[k].sale.product)
          IN /\ Balance(settled[k].after, currs[1]) = Balance(settled[k].before, currs[1])
             /\ Balance(settled[k].after, currs[2]) = Balance(settled[k].before, currs[2])

\* Sum of the amounts of the sales of m that entry n took part in.
SoldBy(m, n) ==
    SumSeq([k \in 1..Len(m.sales) |->
              IF m.pairs[k].ask.id = n \/ m.pairs[k].bid.id = n
              THEN m.sales[k].amount ELSE 0])

NonNegative(m) ==
    /\ \A k \in 1..Len(m.asks0) : m.asks0[k].amount >= 0
    /\ \A k \in 1..Len(m.bids0) : m.bids0[k].amount >= 0

\* C4 (FeedSpec): amount conservation in matching.  For one call of
\* matchAsksToBids on asks and bids with amounts >= 0, the amounts of the
\* returned sales sum to at most the sum of the ask amounts and to at most
\* the sum of the bid amounts, and the sales one ask, or one bid, took part
\* in sum to at most the amount of that order.
AmountConservation ==
    \A x \in 1..Len(matches) :
       LET m == matches[x]
       IN NonNegative(m) =>
            /\ SumSeq(Amounts(m.sales)) <= SumSeq(Amounts(m.asks0))
            /\ SumSeq(Amounts(m.sales)) <= SumSeq(Amounts(m.bids0))
            /\ \A k \in 1..Len(m.asks0) : SoldBy(m, m.asks0[k].id) <= m.asks0[k].amount
            /\ \A k \in 1..Len(m.bids0) : SoldBy(m, m.bids0[k].id) <= m.bids0[k].amount

\* A call with two asks and two bids in which one bid is traded against
\* both asks, the second time for what the first left of it.
AmountConservationWitness ==
    \E x \in 1..Len(matches) :
       LET m == matches[x]
       IN /\ NonNegative(m)
          /\ Len(m.asks0) = 2 /\ Len(m.bids0) = 2
          /\ \E j, k \in 1..Len(m.sales) :
                /\ j < k
                /\ m.pairs[j].bid.id = m.pairs[k].bid.id
                /\ m.pairs[j].ask.id # m.pairs[k].ask.id
                /\ m.sales[j].amount > 0
                /\ m.sales[k].amount > 0
                /\ m.pairs[k].bid.amount < m.pairs[j].bid.amount

\* C5 (FeedSpec): matching price rule.  Every returned sale comes from an
\* ask and a bid of the stored collection with bid price >= ask price, and
\* its price is the price of that ask; a call in which no bid has a price
\* >= the price of any ask returns no sale.
MatchingPriceRule ==
    \A x \in 1..Len(matches) :
       LET m == matches[x]
       IN /\ \A k \in 1..Len(m.sales) :
                \E a, b \in 1..Len(orders) :
                   /\ orders[a].id = m.pairs[k].ask.id
                   /\ orders[b].id = m.pairs[k].bid.id
                   /\ orders[a].orderType = "ask"
                   /\ orders[b].orderType = "bid"
                   /\ orders[b].price >= orders[a].price
                   /\ m.sales[k].price = orders[a].price
          /\ (\A i \in 1..Len(m.asks0), j \in 1..Len(m.bids0) :
                 m.bids0[j].price < m.asks0[i].price) => m.sales = <<>>

\* A sale at the ask's price from a bid that offered more.
MatchingPriceRuleWitness ==
    \E x \in 1..Len(matches) :
       \E k \in 1..Len(matches[x].sales) :
          /\ matches[x].pairs[k].bid.price > matches[x].pairs[k].ask.price
          /\ matches[x].sales[k].price = matches[x].pairs[k].ask.price
          /\ matches[x].sales[k].amount > 0

\* C6 (Spec): entry lifecycle.  Over any sequence of order entries and time
\* steps, also once the time cursor has wrapped around and come back to the
\* timestamp of an order, the amounts traded against one stored order add
\* up to at most its amount, so an order that has been filled entirely
\* takes part in no further sale.
EntryLifecycle ==
    \A i \in 1..Len(orders) : traded[orders[i].id] <= orders[i].amount

\* C7 (FeedSpec): matchAsksToBids leaves the stored collection alone.  A time
\* step, which calls it for every known product at the current time, ends
\* with the collection it began with (same entries, order and amounts, no
\* sale added); each call reports the collection it was given; and a call
\* that finds no ask or no bid returns no sale.
MatchFrameStep == last'.op = "gotoNextTimeframe" => orders' = orders

MatchFrameCalls ==
    \A x \in 1..Len(matches) :
       /\ matches[x].orders = orders
       /\ Len(matches[x].asks0) = 0 \/ Len(matches[x].bids0) = 0
             => matches[x].sales = <<>>

MatchLeavesBook == [][MatchFrameStep]_vars /\ []MatchFrameCalls

\* A time step with a call that changed the amounts of its working copies
\* and a call that found no ask or no bid.
MatchLeavesBookWitness ==
    /\ last.op = "gotoNextTimeframe"
    /\ \E x \in 1..Len(matches) :
          /\ matches[x].sales # <<>>
          /\ matches[x].asks # matches[x].asks0
          /\ matches[x].bids # matches[x].bids0
    /\ \E x \in 1..Len(matches) :
          Len(matches[x].asks0) = 0 \/ Len(matches[x].bids0) = 0

\* The result the specification gives for nextTime.
SmallestLater(os, after) ==
    LET later == {os[i].timestamp : i \in {k \in 1..Len(os) : os[k].timestamp > after}}
    IN IF later # {}
       THEN CHOOSE t \in later : \A u \in later : t <= u
       ELSE os[1].timestamp

TimeProbes == {EmptyTime, T1 - 1, T1, T1 + 1, T2, T2 + 1}

\* C8 (Spec): getNextTime.  In every reachable collection and for every
\* timestamp, it returns the smallest stored timestamp greater than the one
\* given if there is one, and the timestamp of the first entry otherwise;
\* given the timestamp of the last entry it returns that of the first.
NextTimeCorrect ==
    /\ \A after \in TimeProbes :
          getNextTime(orders, after) = SmallestLater(orders, after)
    /\ getNextTime(orders, orders[Len(orders)].timestamp) = orders[1].timestamp

\* The cursor has wrapped around a collection the user has added to, in
\* both time frames.
NextTimeWitness ==
    /\ last.op = "gotoNextTimeframe"
    /\ nAdvances >= 2
    /\ currentTime = orders[1].timestamp
    /\ \E i, j \in 1..Len(orders) :
          /\ IsUser(orders[i]) /\ orders[i].timestamp = T1
          /\ IsUser(orders[j]) /\ orders[j].timestamp = T2

\* C9 (FeedSpec): only the user's trades reach the wallet.  In a time step,
\* a sale whose ask and bid are both the dataset's is owned by the dataset
\* and leaves every balance as it was, and the wallet changes only where a
\* sale is settled: the first sale finds the wallet of before the step,
\* each next sale the wallet the previous one left, and the step ends with
\* the wallet the last sale left.
OnlyUserTradesStep ==
    last'.op = "gotoNextTimeframe" =>
       /\ \A k \in 1..Len(settled') :
             ~IsUser(settled'[k].ask) /\ ~IsUser(settled'[k].bid) =>
                /\ ~IsUser(settled'[k].sale)
                /\ settled'[k].after = settled'[k].before
       /\ \A k \in 1..Len(settled') :
             settled'[k].before = IF k = 1 THEN currencies ELSE settled'[k - 1].after
       /\ currencies' = IF Len(settled') = 0 THEN currencies
                        ELSE settled'[Len(settled')].after

OnlyUserTrades == [][OnlyUserTradesStep]_vars

\* A time step with a sale between two dataset orders and a sale of the
\* user's, both of a positive amount.
OnlyUserTradesWitness ==
    /\ last.op = "gotoNextTimeframe"
    /\ \E k \in 1..Len(settled) :
          /\ ~IsUser(settled[k].ask) /\ ~IsUser(settled[k].bid)
          /\ settled[k].sale.amount > 0
    /\ \E k \in 1..Len(settled) :
          /\ IsUser(settled[k].sale)
          /\ settled[k].sale.amount > 0
          /\ settled[k].after # settled[k].before

\* C10 (WalletSpec): removeCurrency.  It returns false and leaves every
\* balance as it was when the amount is < 0, when the currency is unknown
\* to the wallet, or when the balance is less than the amount; otherwise it
\* returns true, takes exactly the amount from that balance and leaves the
\* other balances as they were.
RemoveCurrencyCorrect ==
    last.op = "removeCurrency" =>
       LET b == last.before
       IN IF \/ last.amount < 0
             \/ last.type \notin DOMAIN b
             \/ b[last.type] < last.amount
          THEN ~last.ok /\ currencies = b
          ELSE /\ last.ok
               /\ DOMAIN currencies = DOMAIN b
               /\ currencies[last.type] = b[last.type] - last.amount
               /\ \A t \in DOMAIN b : t # last.type => currencies[t] = b[t]

\* A withdrawal that succeeded from a wallet holding two other currencies.
RemoveCurrencyWitness ==
    /\ last.op = "removeCurrency"
    /\ last.ok
    /\ last.amount > 0
    /\ Cardinality(DOMAIN currencies) = 3
    /\ currencies[last.type] < last.before[last.type]

\* Change of the balance of currency t since the wallet b.
Delta(b, t) == Balance(currencies, t) - Balance(b, t)

\* C11 (LedgerSpec): processSale.  For a sale on product base/quote, an
\* asksale takes the amount from the balance of base and adds amount * price
\* to the balance of quote; a bidsale adds the amount to the balance of base
\* and takes amount * price from the balance of quote; in both cases every
\* other balance stays as it was; a sale of any other side leaves the
\* wallet as it was.
ProcessSaleCorrect ==
    last.op = "processSale" =>
       LET sale == last.entry
           b == last.before
           base == tokenise(sale.product)[1]
           quote == tokenise(sale.product)[2]
           others == (DOMAIN currencies \cup DOMAIN b \cup WalletTypes) \ {base, quote}
       IN IF sale.orderType = "asksale"
          THEN /\ Delta(b, base) = 0 - sale.amount
               /\ Delta(b, quote) = sale.amount * sale.price
               /\ \A t \in others : Delta(b, t) = 0
          ELSE IF sale.orderType = "bidsale"
          THEN /\ Delta(b, base) = sale.amount
               /\ Delta(b, quote) = 0 - sale.amount * sale.price
               /\ \A t \in others : Delta(b, t) = 0
          ELSE currencies = b

\* A purchase settled on a wallet that holds a third currency.
ProcessSaleWitness ==
    /\ last.op = "processSale"
    /\ last.entry.orderType = "bidsale"
    /\ last.entry.amount > 0
    /\ last.entry.product = "BTC/USDT"
    /\ Balance(last.before, "ETH") > 0
    /\ Balance(currencies, "BTC") > Balance(last.before, "BTC")
    /\ Balance(currencies, "USDT") < Balance(last.before, "USDT")

\* C12 (LedgerSpec): canFulfillOrder.  For an order on product base/quote
\* it answers true exactly when the order is an ask and the wallet knows
\* base with a balance >= the amount, or the order is a bid and the wallet
\* knows quote with a balance >= amount * price; for every other side it
\* answers false; and it leaves every balance as it was.
CanFulfillCorrect ==
    last.op = "canFulfillOrder" =>
       LET order == last.entry
           b == last.before
           base == tokenise(order.product)[1]
           quote == tokenise(order.product)[2]
       IN /\ last.result =
               \/ /\ order.orderType = "ask"
                  /\ base \in DOMAIN b
                  /\ b[base] >= order.amount
               \/ /\ order.orderType = "bid"
                  /\ quote \in DOMAIN b
                  /\ b[quote] >= order.amount * order.price
          /\ order.orderType \notin {"ask", "bid"} => ~last.result
          /\ currencies = b

\* A bid the wallet can pay for by its amount but not by amount * price.
CanFulfillWitness ==
    /\ last.op = "canFulfillOrder"
    /\ last.entry.orderType = "bid"
    /\ ~last.result
    /\ "USDT" \in DOMAIN currencies
    /\ currencies["USDT"] >= last.entry.amount
    /\ last.entry.amount > 0

Prices(entries) == {entries[k].price : k \in 1..Len(entries)}

\* C13 (StatsSpec): getHighPrice and getLowPrice.  Called on an empty
\* sequence they fail with an EmptyInputError and return no price; called on
\* a sequence that is not empty they return the greatest, respectively the
\* least, price among its entries.
ExtremePrices ==
    last.op \in {"getHighPrice", "getLowPrice"} =>
       IF Len(last.entries) = 0
       THEN last.result.kind = "EmptyInputError"
       ELSE /\ last.result.kind = "value"
            /\ last.result.price \in Prices(last.entries)
            /\ \A q \in Prices(last.entries) :
                  IF last.op = "getHighPrice"
                  THEN q <= last.result.price
                  ELSE q >= last.result.price

\* C14 (FeedSpec): the tag of a sale.  A sale whose bid is the user's and
\* whose ask is not is a bidsale owned by the user; a sale whose ask is the
\* user's is an asksale owned by the user, also when the bid is the user's
\* too; a sale of two orders of the dataset is an asksale owned by the
\* dataset.
TradeTagging ==
    \A x \in 1..Len(matches) :
       \A k \in 1..Len(matches[x].sales) :
          LET sale == matches[x].sales[k]
              ask == matches[x].pairs[k].ask
              bid == matches[x].pairs[k].bid
          IN /\ IsUser(bid) /\ ~IsUser(ask) =>
                   sale.orderType = "bidsale" /\ sale.username = "simuser"
             /\ IsUser(ask) =>
                   sale.orderType = "asksale" /\ sale.username = "simuser"
             /\ ~IsUser(ask) /\ ~IsUser(bid) =>
                   sale.orderType = "asksale" /\ sale.username = "dataset"

\* One call that returned a sale of each kind: the user's ask with the
\* user's bid, the user's bid with an ask of the dataset, and two orders of
\* the dataset.
TradeTaggingWitness ==
    \E x \in 1..Len(matches) :
       LET m == matches[x]
       IN /\ \E k \in 1..Len(m.sales) : IsUser(m.pairs[k].ask) /\ IsUser(m.pairs[k].bid)
          /\ \E k \in 1..Len(m.sales) : ~IsUser(m.pairs[k].ask) /\ IsUser(m.pairs[k].bid)
          /\ \E k \in 1..Len(m.sales) : ~IsUser(m.pairs[k].ask) /\ ~IsUser(m.pairs[k].bid)

\* Position in os of the entry whose identity is n.
Pos(os, n) == CHOOSE i \in 1..Len(os) : os[i].id = n

Sorted(os) == \A i, j \in 1..Len(os) : i < j => os[i].timestamp <= os[j].timestamp

\* C15 (Spec): insertOrder is a stable re-sort.  After a step that inserts
\* an order the collection is in ascending order of timestamp; two entries
\* with equal timestamps are in the order they had before, and the inserted
\* entry comes after every entry with its timestamp; every entry the
\* collection had is still there, as it was.
InsertStableStep ==
    last'.outcome = "inserted" =>
       /\ Sorted(orders')
       /\ Len(orders') = Len(orders) + 1
       /\ \A i \in 1..Len(orders) : \E j \in 1..Len(orders') : orders'[j] = orders[i]
       /\ \A i, j \in 1..Len(orders) :
             i < j /\ orders[i].timestamp = orders[j].timestamp =>
                Pos(orders', orders[i].id) < Pos(orders', orders[j].id)
       /\ \A i \in 1..Len(orders) :
             orders[i].timestamp = currentTime =>
                Pos(orders', orders[i].id) < Pos(orders', Len(orders) + 1)

InsertStable == [][InsertStableStep]_vars

SalesOfAsk(m, n) == {k \in 1..Len(m.sales) : m.pairs[k].ask.id = n}

\* The amount of the last of them.
LastSold(m, n) ==
    m.sales[CHOOSE k \in SalesOfAsk(m, n) : \A j \in SalesOfAsk(m, n) : j <= k].amount

ExhaustedBidsSkipped ==
    \A x \in 1..Len(matches) :
       LET m == matches[x]
       IN NonNegative(m) =>
            \A k \in 1..Len(m.sales) :
               /\ m.pairs[k].bid.amount # 0
               /\ m.sales[k].amount > 0

\* What is left of bid b of m when sale k is made: its amount less the
\* sales made with it before.
LeftBefore(m, b, k) ==
    m.bids0[b].amount
    - SumSeq([j \in 1..(k - 1) |->
                IF m.pairs[j].bid.id = m.bids0[b].id THEN m.sales[j].amount ELSE 0])

\* C18 (FeedSpec): price priority and the order of the sales.  In a call of
\* matchAsksToBids the asks are gone through in ascending order of price
\* and, for each ask, the bids in descending order of price, and the sales
\* are returned in the order they were made: a sale of an ask never comes
\* after a sale of an ask of a higher price, the sales of one ask are in
\* descending order of the bid's price, and when an ask and a bid make a
\* sale no bid of a strictly higher price has an amount > 0 left.
PricePriority ==
    \A x \in 1..Len(matches) :
       LET m == matches[x]
       IN /\ \A i, j \in 1..Len(m.asks0) : i < j => m.asks0[i].price <= m.asks0[j].price
          /\ \A i, j \in 1..Len(m.bids0) : i < j => m.bids0[i].price >= m.bids0[j].price
          /\ \A j, k \in 1..Len(m.sales) :
                j < k =>
                   /\ m.pairs[j].ask.price <= m.pairs[k].ask.price
                   /\ m.pairs[j].ask.id = m.pairs[k].ask.id =>
                         m.pairs[j].bid.price >= m.pairs[k].bid.price
          /\ \A k \in 1..Len(m.sales) :
                \A b \in 1..Len(m.bids0) :
                   m.bids0[b].price > m.pairs[k].bid.price => LeftBefore(m, b, k) <= 0

\* A call on two asks and two bids of different prices in which the cheaper
\* ask sold first to the dearer bid, all of it, then to the cheaper one.
PricePriorityWitness ==
    \E x \in 1..Len(matches) :
       LET m == matches[x]
       IN /\ Len(m.asks0) = 2 /\ m.asks0[1].price < m.asks0[2].price
          /\ Len(m.bids0) = 2 /\ m.bids0[1].price > m.bids0[2].price
          /\ Len(m.sales) >= 2
          /\ m.pairs[1].ask.id = m.asks0[1].id /\ m.pairs[1].bid.id = m.bids0[1].id
          /\ m.pairs[2].ask.id = m.asks0[1].id /\ m.pairs[2].bid.id = m.bids0[2].id
          /\ m.sales[1].amount > 0 /\ m.sales[2].amount > 0

Timestamps(os) == {os[i].timestamp : i \in 1..Len(os)}

\* C19 (Spec): the book and the time cursor.  In every state reached from
\* the seeded book by steps of the driver, the collection is in ascending
\* order of timestamp, the cursor is the timestamp of some stored entry,
\* the stored timestamps are those of the seed, and getEarliestTime is the
\* least of them; every entry a step adds carries the cursor of that
\* moment, and no step changes the set of stored timestamps.
BookState ==
    /\ Sorted(orders)
    /\ currentTime \in Timestamps(orders)
    /\ Timestamps(orders) = Timestamps(SeedOrders)
    /\ \A t \in Timestamps(orders) : getEarliestTime(orders) <= t

BookStep ==
    /\ \A i \in 1..Len(orders') :
          orders'[i].id > Len(orders) => orders'[i].timestamp = currentTime
    /\ Timestamps(orders') = Timestamps(orders)

BookAndCursor == []BookState /\ [][BookStep]_vars

\* An order inserted in the first time frame once the cursor has wrapped
\* around, into a book that holds an order of the user's in the second.
BookAndCursorWitness ==
    /\ last.outcome = "inserted"
    /\ currentTime = T1
    /\ nAdvances >= 2
    /\ orders[Len(orders)].timestamp = T2
    /\ \E i, j \in 1..Len(orders) :
          /\ IsUser(orders[i]) /\ orders[i].timestamp = T1
          /\ IsUser(orders[j]) /\ orders[j].timestamp = T2

\* One time step of the cursor: to the next stored timestamp, none passed
\* over, and back to the earliest from the latest only.
ClockStep ==
    last'.op = "gotoNextTimeframe" =>
       /\ currentTime' \in Timestamps(orders)
       /\ currentTime' > currentTime =>
             ~ \E t \in Timestamps(orders) : currentTime < t /\ t < currentTime'
       /\ currentTime' <= currentTime =>
             /\ \A t \in Timestamps(orders) : t <= currentTime
             /\ \A t \in Timestamps(orders) : currentTime' <= t

\* C20 (LiveSpec): the cyclic clock.  If the time step is taken again and
\* again, the cursor is at every stored timestamp infinitely often; each
\* time step takes it to the next stored timestamp in ascending order,
\* passing over none, and takes it back to the earliest only from the
\* latest.
CyclicClock ==
    /\ [][ClockStep]_vars
    /\ \A t \in ClockTimes : []<>(t \in Timestamps(orders) => currentTime = t)

\* The cursor has just come back to the first of three time frames, in a
\* book the user has added to.
CyclicClockWitness ==
    /\ last.op = "gotoNextTimeframe"
    /\ Timestamps(orders) = ClockTimes
    /\ currentTime = T1
    /\ UserOrders(orders) # {}

====
